---- MODULE Spec2Model ----
(***************************************************************************)
(* A model of newai.py: the chat history store (load, flatten, save_all,   *)
(* append), the exchange pairing scan of the sidebar and of the main view, *)
(* delete-exchange, and the send sequence with its streamed response.      *)
(*                                                                         *)
(* Conventions.                                                            *)
(*  - A timestamp string "%d-%m-%Y %H:%M:%S" is the tuple of its fields in *)
(*    the order they are written, <<dd, mm, yyyy, HH, MM, SS>>.  Every     *)
(*    field is zero padded to a fixed width, so Python's comparison of two *)
(*    such strings is the lexicographic comparison of the tuples.          *)
(*  - A Python dict is a sequence of [date, chats] entries in insertion    *)
(*    order (dicts iterate in insertion order).                            *)
(*  - Python list indices are 0-based and kept so; chats[i] is At(chats,i).*)
(***************************************************************************)
EXTENDS Integers, Sequences, FiniteSets, TLC

VARIABLES
    file,           \* contents of chat_history.json
    loaded,         \* "chat_history" in st.session_state
    chat_history,   \* st.session_state.chat_history, a dict date -> list
    models,         \* st.session_state.models
    now,            \* the wall clock: an index into Timeline
    pc,             \* "closed", "idle" (awaiting a user action), "streaming"
    run,            \* locals of the script run that is streaming
    lastOp,         \* history: the handler that last loaded or changed the history
    faults,         \* history: how many writes of the file have failed
    scan            \* the two pairing scans in progress over one bucket

vars == <<file, loaded, chat_history, models, now, pc, run, lastOp, faults, scan>>

(***************************************************************************)
(* Bounds of the model.                                                    *)
(***************************************************************************)
MaxClock == 2       \* the clock stops advancing at Timeline[MaxClock]
MaxTurns == 3       \* a send needs fewer turns than this in the history
MaxStreamTurns == 1 \* the same, in the specification of one stream
MaxChunks == 2      \* fragments one stream delivers at most
MaxStreamChunks == 3 \* the same, in the specification of one stream
MaxFaults == 1      \* writes of the file that fail at most
MaxItems == 3       \* elements of a history file given to the store
MaxBucket == 4      \* turns in a bucket given to the pairing scans

(***************************************************************************)
(* Time.  datetime.now() walks through Timeline, a chronological sample of *)
(* instants that crosses midnight, a month end and a year end.             *)
(***************************************************************************)
DateTime(y, mo, d, h, mi, s) ==
    [year |-> y, month |-> mo, day |-> d, hour |-> h, minute |-> mi, second |-> s]

Timeline ==
    << DateTime(2024, 12, 31, 23, 59, 59),
       DateTime(2025, 1, 1, 0, 0, 0),
       DateTime(2025, 1, 1, 0, 0, 1),
       DateTime(2025, 1, 2, 9, 30, 0),
       DateTime(2025, 2, 1, 9, 30, 0),
       DateTime(2025, 2, 1, 9, 30, 1) >>

\* chronological order of two instants
Earlier(a, b) ==
    LET ta == <<a.year, a.month, a.day, a.hour, a.minute, a.second>>
        tb == <<b.year, b.month, b.day, b.hour, b.minute, b.second>>
    IN  \E k \in 1..6 : ta[k] < tb[k] /\ \A j \in 1..(k - 1) : ta[j] = tb[j]

\* strftime("%d-%m-%Y %H:%M:%S")
StrftimeStamp(dt) == <<dt.day, dt.month, dt.year, dt.hour, dt.minute, dt.second>>

\* strftime("%d-%m-%Y")
StrftimeDate(dt) == <<dt.day, dt.month, dt.year>>

\* timestamp.split(" ")[0]
SplitDate(ts) == SubSeq(ts, 1, 3)

\* Python's s1 < s2 on two timestamp strings
StrLess(s1, s2) ==
    \E k \in 1..Len(s1) : s1[k] < s2[k] /\ \A j \in 1..(k - 1) : s1[j] = s2[j]

\* the instant a timestamp string denotes
ParseStamp(ts) == DateTime(ts[3], ts[2], ts[1], ts[4], ts[5], ts[6])

(***************************************************************************)
(* Turns and the history file.                                             *)
(***************************************************************************)

Entry(ts, who, text) == [timestamp |-> ts, user |-> who, message |-> text]

\* an array element that is no object with a "timestamp" string
BadElement == [user |-> "You", message |-> "hi"]

At(chats, i) == chats[i + 1]

\* What chat_history.json holds:
\*   "missing"   no file
\*   "garbage"   text json.load rejects (also a file cut short by a failed dump)
\*   "scalar"    a JSON number, true, false or null
\*   "empty"     the JSON object {} or the JSON string ""
\*   "object"    a JSON object with members, or a non-empty JSON string
\*   "array"     a JSON array of items
FileOf(kind, items) == [kind |-> kind, items |-> items]
NoFile == FileOf("missing", <<>>)
Garbage == FileOf("garbage", <<>>)
ArrayFile(items) == FileOf("array", items)

(***************************************************************************)
(* History store.                                                          *)
(***************************************************************************)
HasKey(dict, date) == \E k \in 1..Len(dict) : dict[k].date = date

KeyIndex(dict, date) == CHOOSE k \in 1..Len(dict) : dict[k].date = date

\* dict[date], and [] for a key that is absent
Bucket(dict, date) == IF HasKey(dict, date) THEN dict[KeyIndex(dict, date)].chats ELSE <<>>

\* dict[date] = chats
SetItem(dict, date, chats) ==
    IF HasKey(dict, date)
    THEN [dict EXCEPT ![KeyIndex(dict, date)].chats = chats]
    ELSE Append(dict, [date |-> date, chats |-> chats])

\* dict.setdefault(date, []).append(chat)
SetDefaultAppend(dict, date, chat) == SetItem(dict, date, Append(Bucket(dict, date), chat))

\* GroupByDate that puts each turn at the front of its bucket
RECURSIVE GroupByDateNewestFirst(_, _)
GroupByDateNewestFirst(chats, n) ==
    IF n = 0 THEN <<>>
    ELSE LET dict == GroupByDateNewestFirst(chats, n - 1)
             date == SplitDate(chats[n].timestamp)
         IN  SetItem(dict, date, <<chats[n]>> \o Bucket(dict, date))

\* the loop of load_chat_history over the first n elements of chats
RECURSIVE GroupByDate(_, _)
GroupByDate(chats, n) ==
    IF n = 0 THEN <<>>
    ELSE SetDefaultAppend(GroupByDate(chats, n - 1), SplitDate(chats[n].timestamp), chats[n])

\* chat["timestamp"].split(" ") works on this element
HasTimestamp(chat) == "timestamp" \in DOMAIN chat

\* load_chat_history(): raised, the error reported, and the dict returned
LoadChatHistory(f) ==
    LET ret(r, e, d) == [raised |-> r, error |-> e, daily_chats |-> d]
    IN  CASE f.kind = "missing" -> ret(FALSE, FALSE, <<>>)
          [] f.kind = "garbage" -> ret(FALSE, TRUE, <<>>)
          [] f.kind = "scalar"  -> ret(TRUE, FALSE, <<>>)
          [] f.kind = "empty"   -> ret(FALSE, FALSE, <<>>)
          [] f.kind = "object"  -> ret(TRUE, FALSE, <<>>)
          [] f.kind = "array"   ->
                IF \A k \in 1..Len(f.items) : HasTimestamp(f.items[k])
                THEN ret(FALSE, FALSE, GroupByDate(f.items, Len(f.items)))
                ELSE ret(TRUE, FALSE, <<>>)

\* all_chats after the extend loop over the first n buckets
RECURSIVE ExtendAll(_, _)
ExtendAll(dict, n) ==
    IF n = 0 THEN <<>> ELSE ExtendAll(dict, n - 1) \o dict[n].chats

\* x put into a list sorted by timestamp, after every element not greater
RECURSIVE InsertSorted(_, _)
InsertSorted(sorted, x) ==
    IF sorted = <<>> THEN <<x>>
    ELSE IF StrLess(x.timestamp, sorted[Len(sorted)].timestamp)
         THEN Append(InsertSorted(SubSeq(sorted, 1, Len(sorted) - 1), x), sorted[Len(sorted)])
         ELSE Append(sorted, x)

\* list.sort(key=lambda x: x["timestamp"]): stable, ascending in string order
RECURSIVE SortByTimestamp(_, _)
SortByTimestamp(chats, n) ==
    IF n = 0 THEN <<>> ELSE InsertSorted(SortByTimestamp(chats, n - 1), chats[n])

\* flatten_chat_history(chat_dict)
FlattenChatHistory(dict) ==
    LET all_chats == ExtendAll(dict, Len(dict))
    IN  SortByTimestamp(all_chats, Len(all_chats))

\* How a write of the file ends: "ok"; "open_failed", open() raises and the
\* file is as before; "dump_failed", json.dump raises after open() truncated it.
WriteOutcomes == {"ok", "open_failed", "dump_failed"}

\* save_all_chat_history(chats): the file afterwards
SaveAllChatHistory(f, chats, outcome) ==
    CASE outcome = "ok"          -> ArrayFile(chats)
      [] outcome = "open_failed" -> f
      [] outcome = "dump_failed" -> Garbage

\* append_chat_entry(entry): raised, the error reported, and the file afterwards
AppendChatEntry(f, entry, outcome) ==
    LET ret(r, e, g) == [raised |-> r, error |-> e, file |-> g]
    IN  CASE f.kind = "missing" -> ret(FALSE, outcome # "ok", SaveAllChatHistory(f, <<entry>>, outcome))
          [] f.kind = "garbage" -> ret(FALSE, TRUE, SaveAllChatHistory(f, <<entry>>, outcome))
          [] f.kind = "array"   ->
                ret(FALSE, outcome # "ok", SaveAllChatHistory(f, Append(f.items, entry), outcome))
          [] OTHER              -> ret(TRUE, FALSE, f)

(***************************************************************************)
(* Exchange pairing.  One pass of each while loop's body: the indices it   *)
(* binds and the cursor it leaves.  ai_msg_index is <<>> for None.         *)
(***************************************************************************)
Iteration(u, a, i) == [user_msg_index |-> u, ai_msg_index |-> a, i |-> i]

\* the body of the sidebar loop at cursor i
SidebarIteration(chats, i) ==
    IF At(chats, i).user = "You"
    THEN IF i + 1 < Len(chats) /\ At(chats, i + 1).user \in {"Ollama", "AI  "}
         THEN Iteration(i, <<i + 1>>, i + 2)
         ELSE Iteration(i, <<>>, i + 1)
    ELSE Iteration(i, <<>>, i + 1)

\* MainIteration with a tag set that lacks "Ollama"
MainIterationNoOllama(chats, i) ==
    IF At(chats, i).user = "You"
    THEN IF i + 1 < Len(chats) /\ At(chats, i + 1).user \in {"AI  "}
         THEN Iteration(i, <<i + 1>>, i + 2)
         ELSE Iteration(i, <<>>, i + 1)
    ELSE Iteration(i, <<>>, i + 1)

\* the body of the main-view loop at cursor i
MainIteration(chats, i) ==
    IF At(chats, i).user = "You"
    THEN IF i + 1 < Len(chats) /\ At(chats, i + 1).user \in {"AI  ", "Ollama"}
         THEN Iteration(i, <<i + 1>>, i + 2)
         ELSE Iteration(i, <<>>, i + 1)
    ELSE Iteration(i, <<>>, i + 1)

\* the exchanges the sidebar loop renders from cursor i on, in order
RECURSIVE SidebarExchanges(_, _)
SidebarExchanges(chats, i) ==
    IF i < Len(chats)
    THEN LET it == SidebarIteration(chats, i) IN <<it>> \o SidebarExchanges(chats, it.i)
    ELSE <<>>

\* the exchanges the main-view loop renders from cursor i on, in order
RECURSIVE MainExchanges(_, _)
MainExchanges(chats, i) ==
    IF i < Len(chats)
    THEN LET it == MainIteration(chats, i) IN <<it>> \o MainExchanges(chats, it.i)
    ELSE <<>>

\* indices_to_delete of the exchange whose button was pressed
IndicesToDelete(it) == <<it.user_msg_index>> \o it.ai_msg_index

InSeq(x, s) == \E k \in 1..Len(s) : s[k] = x

\* KeepOthers that drops the user turn alone and keeps its reply
RECURSIVE KeepAllButFirst(_, _, _)
KeepAllButFirst(chats, indices, n) ==
    IF n = 0 THEN <<>>
    ELSE IF n - 1 = indices[1]
         THEN KeepAllButFirst(chats, indices, n - 1)
         ELSE Append(KeepAllButFirst(chats, indices, n - 1), chats[n])

\* [chat for idx, chat in enumerate(chats) if idx not in indices_to_delete]
RECURSIVE KeepOthers(_, _, _)
KeepOthers(chats, indices, n) ==
    IF n = 0 THEN <<>>
    ELSE IF InSeq(n - 1, indices)
         THEN KeepOthers(chats, indices, n - 1)
         ELSE Append(KeepOthers(chats, indices, n - 1), chats[n])

(***************************************************************************)
(* The session: main() runs once per user action, top to bottom.           *)
(***************************************************************************)
NoEntry == Entry(<<>>, "", "")

NoRun == [today |-> <<>>, user_input |-> "", chat_entry_user |-> NoEntry,
          full_response |-> "", chunks |-> <<>>]

NoScan == [chats |-> <<>>,
           sidebar |-> [i |-> 0, exchanges |-> <<>>, steps |-> 0],
           main |-> [i |-> 0, exchanges |-> <<>>, steps |-> 0]]

\* lastOp: op names the handler; date and indices the bucket and the indices a
\* delete removed; entry the turn an append wrote; chunks the fragments the
\* stream had delivered when it ended and how it ended; outcome how the write ended; raised
\* whether the run ended in an exception; clean whether no write of this
\* session has failed so far.
NoOp == [op |-> "init", date |-> <<>>, indices |-> <<>>, entry |-> NoEntry,
         chunks |-> <<>>, how |-> "", outcome |-> "none", raised |-> FALSE,
         clean |-> TRUE]

\* how a write can end here: it fails only while the model allows a fault
Outcomes == IF faults < MaxFaults THEN WriteOutcomes ELSE {"ok"}

Faulted(outcome) == IF outcome = "ok" THEN faults ELSE faults + 1

\* what fetch_models() can return: [] on any failure, else the catalog
Catalogs == {<<>>, <<"llama3">>}

\* texts the user can submit
Inputs == {"", "hi", "bye"}

\* fragments a stream can deliver
Fragments == {"Hel", "lo"}

\* the same, in the specification of one stream
StreamFragments == {"Hel", "lo", " there"}

\* datetime.now()
Now == Timeline[now]

\* lines 151-154: today's bucket exists after every run that gets there
EnsureToday(dict, today) == IF HasKey(dict, today) THEN dict ELSE SetItem(dict, today, <<>>)

StillClean(outcome) == lastOp.clean /\ outcome = "ok"

\* Accumulate that puts the new fragment in front
AccumulateInFront(full_response, chunk) == chunk \o full_response

\* full_response += chunk
Accumulate(full_response, chunk) == full_response \o chunk

\* The first run of a session: fetch the models, load the history, render.
OpenWith(fetched) ==
    /\ pc = "closed"
    /\ LET r == LoadChatHistory(file) IN
        /\ models' = fetched
        /\ loaded' = ~r.raised
        /\ chat_history' = IF r.raised THEN <<>>
                           ELSE EnsureToday(r.daily_chats, StrftimeDate(Now))
        /\ pc' = IF r.raised THEN "closed" ELSE "idle"
        /\ lastOp' = [NoOp EXCEPT !.op = "load", !.raised = r.raised]
    /\ UNCHANGED <<file, now, run, faults, scan>>

OpenSession == \E fetched \in Catalogs : OpenWith(fetched)

\* The session ends: session_state is gone, the file stays.
CloseSession ==
    /\ pc = "idle"
    /\ pc' = "closed"
    /\ loaded' = FALSE
    /\ chat_history' = <<>>
    /\ models' = <<>>
    /\ lastOp' = NoOp
    /\ UNCHANGED <<file, now, run, faults, scan>>

\* "Refresh Models" pressed.
RefreshModels ==
    /\ pc = "idle"
    /\ \E fetched \in Catalogs : models' = fetched
    /\ chat_history' = EnsureToday(chat_history, StrftimeDate(Now))
    /\ UNCHANGED <<file, loaded, now, pc, run, lastOp, faults, scan>>

\* Time passes.
Tick ==
    /\ now < MaxClock
    /\ now' = now + 1
    /\ UNCHANGED <<file, loaded, chat_history, models, pc, run, lastOp, faults, scan>>

\* "Delete Exchange" pressed in the sidebar, on exchange k of bucket b.
DeleteSidebar ==
    /\ pc = "idle"
    /\ \E b \in 1..Len(chat_history), outcome \in Outcomes :
        LET date == chat_history[b].date
            chats == chat_history[b].chats
            exchanges == SidebarExchanges(chats, 0)
        IN  \E k \in 1..Len(exchanges) :
            LET indices_to_delete == IndicesToDelete(exchanges[k])
                new_chats == KeepOthers(chats, indices_to_delete, Len(chats))
                history == SetItem(chat_history, date, new_chats)
            IN  /\ file' = SaveAllChatHistory(file, FlattenChatHistory(history), outcome)
                /\ chat_history' = EnsureToday(history, StrftimeDate(Now))
                /\ lastOp' = [NoOp EXCEPT !.op = "delete_sidebar", !.date = date,
                                          !.indices = indices_to_delete,
                                          !.outcome = outcome,
                                          !.clean = StillClean(outcome)]
                /\ faults' = Faulted(outcome)
    /\ UNCHANGED <<loaded, models, now, pc, run, scan>>

\* "Delete Exchange" pressed in the main view, on exchange k of today's bucket.
DeleteMain ==
    /\ pc = "idle"
    /\ \E outcome \in Outcomes :
        LET today == StrftimeDate(Now)
            shown == EnsureToday(chat_history, today)
            chats == Bucket(shown, today)
            exchanges == MainExchanges(chats, 0)
        IN  \E k \in 1..Len(exchanges) :
            LET indices_to_delete == IndicesToDelete(exchanges[k])
                history == SetItem(shown, today,
                                   KeepOthers(chats, indices_to_delete, Len(chats)))
            IN  /\ file' = SaveAllChatHistory(file, FlattenChatHistory(history), outcome)
                /\ chat_history' = history
                /\ lastOp' = [NoOp EXCEPT !.op = "delete_main", !.date = today,
                                          !.indices = indices_to_delete,
                                          !.outcome = outcome,
                                          !.clean = StillClean(outcome)]
                /\ faults' = Faulted(outcome)
    /\ UNCHANGED <<loaded, models, now, pc, run, scan>>

\* "Send" pressed with nothing typed: `submitted and user_input` is false.
SendEmpty ==
    /\ pc = "idle"
    /\ chat_history' = EnsureToday(chat_history, StrftimeDate(Now))
    /\ UNCHANGED <<file, loaded, models, now, pc, run, lastOp, faults, scan>>

\* "Send" pressed with user_input typed.  today is taken at line 151, the
\* turn's timestamp at line 194, at the same instant or the next.  With no
\* model in the catalog `model` is unbound and line 206 raises.
SendUpTo(limit) ==
    /\ pc = "idle"
    /\ Len(file.items) < limit
    /\ Len(ExtendAll(chat_history, Len(chat_history))) < limit
    /\ \E user_input \in Inputs \ {""}, outcome \in Outcomes,
          sent \in {now, IF now < MaxClock THEN now + 1 ELSE now} :
        LET today == StrftimeDate(Now)
            chat_entry_user == Entry(StrftimeStamp(Timeline[sent]), "You", user_input)
            history == SetDefaultAppend(EnsureToday(chat_history, today), today,
                                        chat_entry_user)
            r == AppendChatEntry(file, chat_entry_user, outcome)
            unbound == models = <<>>
        IN  /\ now' = sent
            /\ chat_history' = history
            /\ file' = r.file
            /\ pc' = IF r.raised \/ unbound THEN "idle" ELSE "streaming"
            /\ run' = IF r.raised \/ unbound THEN NoRun
                      ELSE [today |-> today, user_input |-> user_input,
                            chat_entry_user |-> chat_entry_user,
                            full_response |-> "", chunks |-> <<>>]
            /\ lastOp' = [NoOp EXCEPT !.op = "send", !.date = today,
                                      !.entry = chat_entry_user,
                                      !.outcome = outcome, !.raised = (r.raised \/ unbound),
                                      !.clean = StillClean(outcome)]
            /\ faults' = Faulted(outcome)
    /\ UNCHANGED <<loaded, models, scan>>

\* The stream delivers one fragment and the loop body consumes it.
ChunkFrom(fragments, limit) ==
    /\ pc = "streaming"
    /\ Len(run.chunks) < limit
    /\ \E chunk \in fragments :
        run' = [run EXCEPT !.full_response = Accumulate(run.full_response, chunk),
                           !.chunks = Append(run.chunks, chunk)]
    /\ UNCHANGED <<file, loaded, chat_history, models, now, pc, lastOp, faults, scan>>

\* The stream ends, at the end of the body ("eof") or by an exception the
\* generator reports ("error"): the assistant turn is appended and the
\* script reruns.
StreamEnd ==
    /\ pc = "streaming"
    /\ \E how \in {"eof", "error"}, outcome \in Outcomes :
        LET chat_entry_ai == Entry(StrftimeStamp(Now), "AI  ", run.full_response)
            history == SetDefaultAppend(chat_history, run.today, chat_entry_ai)
            r == AppendChatEntry(file, chat_entry_ai, outcome)
        IN  /\ file' = r.file
            /\ chat_history' = IF r.raised THEN history
                               ELSE EnsureToday(history, StrftimeDate(Now))
            /\ lastOp' = [NoOp EXCEPT !.op = "stream_end", !.date = run.today,
                                      !.entry = chat_entry_ai,
                                      !.chunks = run.chunks, !.how = how,
                                      !.outcome = outcome,
                                      !.raised = r.raised,
                                      !.clean = StillClean(outcome)]
            /\ faults' = Faulted(outcome)
    /\ pc' = "idle"
    /\ run' = NoRun
    /\ UNCHANGED <<loaded, models, now, scan>>

Send == SendUpTo(MaxTurns)

Chunk == ChunkFrom(Fragments, MaxChunks)

Init ==
    /\ file = NoFile
    /\ loaded = FALSE
    /\ chat_history = <<>>
    /\ models = <<>>
    /\ now = 1
    /\ pc = "closed"
    /\ run = NoRun
    /\ lastOp = NoOp
    /\ faults = 0
    /\ scan = NoScan

Next ==
    \/ OpenSession
    \/ CloseSession
    \/ RefreshModels
    \/ Tick
    \/ DeleteSidebar
    \/ DeleteMain
    \/ SendEmpty
    \/ Send
    \/ Chunk
    \/ StreamEnd

\* A session that starts with no history file.
Spec == Init /\ [][Next]_vars

(***************************************************************************)
(* One stream: the sends of a session that starts with no history file.    *)
(***************************************************************************)
StreamSend == SendUpTo(MaxStreamTurns)

StreamChunk == ChunkFrom(StreamFragments, MaxStreamChunks)

NextStream ==
    \/ OpenSession
    \/ Tick
    \/ StreamSend
    \/ StreamChunk
    \/ StreamEnd

SpecStream == Init /\ [][NextStream]_vars

(***************************************************************************)
(* The store on a history file it is given: any content, well formed or    *)
(* not, with the tags earlier versions wrote.                              *)
(***************************************************************************)
StoreStamps == {StrftimeStamp(Timeline[1]), StrftimeStamp(Timeline[2])}

StoreTurns ==
    {Entry(ts, "You", text) : ts \in StoreStamps, text \in {"hi", "bye"}}
        \cup {Entry(ts, who, "hello") : ts \in StoreStamps, who \in {"AI  ", "Ollama"}}

RECURSIVE SeqsUpTo(_, _)
SeqsUpTo(S, n) ==
    IF n = 0 THEN {<<>>}
    ELSE LET shorter == SeqsUpTo(S, n - 1)
         IN  shorter \cup {Append(q, x) : q \in {r \in shorter : Len(r) = n - 1}, x \in S}

StoreFiles ==
    {FileOf(kind, <<>>) : kind \in {"missing", "garbage", "scalar", "empty", "object"}}
        \cup {ArrayFile(items) : items \in SeqsUpTo(StoreTurns \cup {BadElement}, MaxItems)}

InitStore ==
    /\ file \in StoreFiles
    /\ loaded = FALSE
    /\ chat_history = <<>>
    /\ models = <<>>
    /\ now = 1
    /\ pc = "closed"
    /\ run = NoRun
    /\ lastOp = NoOp
    /\ faults = 0
    /\ scan = NoScan

\* The first run of a session on the file as given, with no model catalog.
StoreOpen == OpenWith(<<>>)

\* append_chat_entry(entry) on the file as given
StoreAppend ==
    /\ pc = "closed"
    /\ lastOp.op = "init"
    /\ \E entry \in StoreTurns, outcome \in Outcomes :
        LET r == AppendChatEntry(file, entry, outcome) IN
        /\ file' = r.file
        /\ lastOp' = [NoOp EXCEPT !.op = "append", !.entry = entry, !.outcome = outcome,
                                  !.raised = r.raised, !.clean = StillClean(outcome)]
        /\ faults' = Faulted(outcome)
    /\ UNCHANGED <<loaded, chat_history, models, now, pc, run, scan>>

\* save_all_chat_history(flatten_chat_history(chat_history)) on the loaded history
StoreRewrite ==
    /\ pc = "idle"
    /\ \E outcome \in Outcomes :
        /\ file' = SaveAllChatHistory(file, FlattenChatHistory(chat_history), outcome)
        /\ lastOp' = [NoOp EXCEPT !.op = "rewrite", !.outcome = outcome,
                                  !.clean = StillClean(outcome)]
        /\ faults' = Faulted(outcome)
    /\ UNCHANGED <<loaded, chat_history, models, now, pc, run, scan>>

NextStore ==
    \/ StoreAppend
    \/ StoreOpen
    \/ StoreRewrite

SpecStore == InitStore /\ [][NextStore]_vars

(***************************************************************************)
(* Delete-exchange on the history loaded from a file as given.             *)
(***************************************************************************)
NextDelete ==
    \/ StoreOpen
    \/ DeleteSidebar
    \/ DeleteMain

SpecDelete == InitStore /\ [][NextDelete]_vars

(***************************************************************************)
(* The two pairing scans, one iteration at a time, over one bucket.        *)
(***************************************************************************)
ScanTurns ==
    {Entry(StrftimeStamp(Timeline[1]), "You", text) : text \in {"hi", "bye"}}
        \cup {Entry(StrftimeStamp(Timeline[1]), who, "hello") : who \in {"AI  ", "Ollama", "Bot"}}

InitScan ==
    /\ file = NoFile
    /\ loaded = FALSE
    /\ chat_history = <<>>
    /\ models = <<>>
    /\ now = 1
    /\ pc = "closed"
    /\ run = NoRun
    /\ lastOp = NoOp
    /\ faults = 0
    /\ \E chats \in SeqsUpTo(ScanTurns, MaxBucket) : scan = [NoScan EXCEPT !.chats = chats]

\* one pass of the sidebar's while loop
SidebarStep ==
    /\ scan.sidebar.i < Len(scan.chats)
    /\ LET it == SidebarIteration(scan.chats, scan.sidebar.i) IN
        scan' = [scan EXCEPT !.sidebar = [i |-> it.i,
                                          exchanges |-> Append(scan.sidebar.exchanges, it),
                                          steps |-> scan.sidebar.steps + 1]]
    /\ UNCHANGED <<file, loaded, chat_history, models, now, pc, run, lastOp, faults>>

\* one pass of the main view's while loop
MainStep ==
    /\ scan.main.i < Len(scan.chats)
    /\ LET it == MainIteration(scan.chats, scan.main.i) IN
        scan' = [scan EXCEPT !.main = [i |-> it.i,
                                       exchanges |-> Append(scan.main.exchanges, it),
                                       steps |-> scan.main.steps + 1]]
    /\ UNCHANGED <<file, loaded, chat_history, models, now, pc, run, lastOp, faults>>

NextScan ==
    \/ SidebarStep
    \/ MainStep

SpecScan == InitScan /\ [][NextScan]_vars

(***************************************************************************)
(* Helpers of the properties.                                              *)
(***************************************************************************)
Count(x, s) == Cardinality({k \in 1..Len(s) : s[k] = x})

\* the same turns with the same field values, each as many times
SameTurns(s, t) ==
    /\ Len(s) = Len(t)
    /\ \A k \in 1..Len(s) : Count(s[k], s) = Count(s[k], t)

LastOf(s) == s[Len(s)]

AllTurns(dict) == ExtendAll(dict, Len(dict))

\* the concatenation of the first n fragments, in delivery order
RECURSIVE Concatenation(_, _)
Concatenation(chunks, n) ==
    IF n = 0 THEN "" ELSE Concatenation(chunks, n - 1) \o chunks[n]

\* no turn of the list is dated before a turn that precedes it
TimeOrdered(chats) ==
    \A i \in 1..Len(chats), j \in 1..Len(chats) :
        i < j => ~Earlier(ParseStamp(chats[j].timestamp), ParseStamp(chats[i].timestamp))

IsDelete(op) == op.op \in {"delete_sidebar", "delete_main"}

\* the turn at index u of the bucket starts a two-turn exchange
Paired(chats, u) ==
    /\ At(chats, u).user = "You"
    /\ u + 1 < Len(chats)
    /\ At(chats, u + 1).user \in {"Ollama", "AI  "}

TagsAndTexts(chats) == [k \in 1..Len(chats) |-> <<chats[k].user, chats[k].message>>]

ExampleBucket == << <<"You", "hi">>, <<"AI  ", "hello">>, <<"You", "bye">> >>

(***************************************************************************)
(* C5.  Exchange pairing.  At every point of either scan the exchanges     *)
(* found so far split the indices before the cursor into consecutive runs  *)
(* of one or two, in order, each index in exactly one exchange; an         *)
(* exchange has two elements exactly when its first turn has the tag "You" *)
(* and the next turn exists and has the tag "Ollama" or "AI  "; the scan   *)
(* takes at most len(bucket) iterations; the bucket [user:hi,              *)
(* assistant:hello, user:bye] yields [hi, hello] and [bye]; and the        *)
(* sidebar scan and the main-view scan, once both are done, have found the *)
(* same exchanges.                                                         *)
(***************************************************************************)
RECURSIVE SpannedIndices(_, _)
SpannedIndices(exchanges, n) ==
    IF n = 0 THEN <<>>
    ELSE SpannedIndices(exchanges, n - 1) \o IndicesToDelete(exchanges[n])

ScanPartitions(chats, view) ==
    /\ view.i <= Len(chats)
    /\ view.steps = Len(view.exchanges)
    /\ view.steps <= Len(chats)
    /\ SpannedIndices(view.exchanges, Len(view.exchanges)) = [k \in 1..view.i |-> k - 1]
    /\ \A k \in 1..Len(view.exchanges) :
        LET span == IndicesToDelete(view.exchanges[k]) IN
        /\ Len(span) \in {1, 2}
        /\ Len(span) = 2 <=> Paired(chats, span[1])

ScanDone(chats, view) == view.i = Len(chats)

ExchangePairing ==
    /\ ScanPartitions(scan.chats, scan.sidebar)
    /\ ScanPartitions(scan.chats, scan.main)
    /\ ScanDone(scan.chats, scan.sidebar) /\ ScanDone(scan.chats, scan.main)
        => scan.sidebar.exchanges = scan.main.exchanges
    /\ ScanDone(scan.chats, scan.sidebar) /\ TagsAndTexts(scan.chats) = ExampleBucket
        => [k \in 1..Len(scan.sidebar.exchanges) |-> IndicesToDelete(scan.sidebar.exchanges[k])]
             = << <<0, 1>>, <<2>> >>

\* both scans are done with the bucket [user:hi, assistant:hello, user:bye]
ExchangePairingWitness ==
    /\ TagsAndTexts(scan.chats) = ExampleBucket
    /\ ScanDone(scan.chats, scan.sidebar)
    /\ ScanDone(scan.chats, scan.main)
    /\ Len(scan.main.exchanges) = 2

(***************************************************************************)
(* C3.  Round trip.  The history load() groups from a well-formed file     *)
(* flattens to the very turns of the file, none lost, duplicated or        *)
(* changed; and once save_all(flatten(history)) has written the file,      *)
(* flatten(load()) is flatten(history) again, turn for turn in the same    *)
(* order, turns of equal timestamp included.                               *)
(***************************************************************************)
RoundTrip ==
    /\ lastOp.op = "load" /\ loaded /\ file.kind = "array"
        => SameTurns(FlattenChatHistory(chat_history), file.items)
    /\ lastOp.op = "rewrite" /\ lastOp.outcome = "ok"
        => LET again == LoadChatHistory(file) IN
           /\ ~again.raised
           /\ FlattenChatHistory(again.daily_chats) = FlattenChatHistory(chat_history)

\* a history of two dates, with two different turns of one timestamp, was
\* flattened and written
RoundTripWitness ==
    /\ lastOp.op = "rewrite"
    /\ lastOp.outcome = "ok"
    /\ Len(file.items) >= 3
    /\ \E i, j \in 1..Len(file.items) :
        /\ i < j
        /\ file.items[i].timestamp = file.items[j].timestamp
        /\ file.items[i] # file.items[j]
    /\ \E i, j \in 1..Len(file.items) :
        SplitDate(file.items[i].timestamp) # SplitDate(file.items[j].timestamp)

(***************************************************************************)
(* C2.  Delete-exchange.  A delete removes from its bucket the indices of  *)
(* one exchange of the pairing scan, the turn at the first index and, when *)
(* that turn is paired, the turn after it, and nothing else: the other     *)
(* turns of the bucket keep value and order, every other bucket is as      *)
(* before, and when the rewrite of the file succeeds the file holds        *)
(* exactly the turns that remain in all buckets.  Deleting the first       *)
(* exchange of [user:hi, assistant:hello, user:bye] leaves [user:bye].     *)
(***************************************************************************)
DeleteFrame ==
    LET date == lastOp'.date
        indices == lastOp'.indices
        u == indices[1]
        old == Bucket(chat_history, date)
        new == Bucket(chat_history', date)
    IN  /\ u < Len(old)
        /\ \E k \in 1..Len(SidebarExchanges(old, 0)) :
                IndicesToDelete(SidebarExchanges(old, 0)[k]) = indices
        /\ indices = IF Paired(old, u) THEN <<u, u + 1>> ELSE <<u>>
        /\ new = SubSeq(old, 1, u) \o SubSeq(old, u + Len(indices) + 1, Len(old))
        /\ \A k \in 1..Len(chat_history) :
                chat_history[k].date # date
                    => Bucket(chat_history', chat_history[k].date) = chat_history[k].chats
        /\ \A k \in 1..Len(chat_history') :
                chat_history'[k].date # date
                    => Bucket(chat_history, chat_history'[k].date) = chat_history'[k].chats
        /\ lastOp'.outcome = "ok"
                => file'.kind = "array" /\ SameTurns(file'.items, AllTurns(chat_history'))
        /\ TagsAndTexts(old) = ExampleBucket /\ u = 0 => new = <<old[3]>>

\* a step that changes the turns held and leaves a delete as the last
\* handler is a step of DeleteSidebar or DeleteMain
DeleteStep == IsDelete(lastOp') /\ AllTurns(chat_history') # AllTurns(chat_history)

DeleteExchange == [][DeleteStep => DeleteFrame]_vars

\* the first exchange of [user:hi, assistant:hello, user:bye] was deleted
\* and the file was written: the bucket and the file hold [user:bye]
DeleteExchangeWitness ==
    /\ IsDelete(lastOp)
    /\ lastOp.outcome = "ok"
    /\ lastOp.indices = <<0, 1>>
    /\ TagsAndTexts(Bucket(chat_history, lastOp.date)) = << <<"You", "bye">> >>
    /\ TagsAndTexts(file.items) = << <<"You", "bye">> >>

(***************************************************************************)
(* C6.  Streaming concatenation.  While a stream is consumed the           *)
(* accumulated response is the concatenation, in delivery order, of the    *)
(* fragments delivered so far; and when the stream has ended, at its end   *)
(* or early by an error, the assistant turn appended last to the bucket of *)
(* the send has that concatenation as its text, and so has the last turn   *)
(* of the file when the write succeeded.  "Hel", "lo", " there" accumulate  *)
(* to "Hello there".                                                       *)
(***************************************************************************)
StreamingConcatenation ==
    /\ pc = "streaming"
        => /\ run.full_response = Concatenation(run.chunks, Len(run.chunks))
           /\ run.chunks = <<"Hel", "lo", " there">> => run.full_response = "Hello there"
    /\ lastOp.op = "stream_end"
        => /\ lastOp.entry.user = "AI  "
           /\ lastOp.entry.message = Concatenation(lastOp.chunks, Len(lastOp.chunks))
           /\ LastOf(Bucket(chat_history, lastOp.date)) = lastOp.entry
           /\ lastOp.outcome = "ok"
                => file.kind = "array" /\ LastOf(file.items) = lastOp.entry

\* a stream ended early after "Hel", "lo" and " there", and "Hello there" is
\* in the bucket and in the file
StreamingConcatenationWitness ==
    /\ lastOp.op = "stream_end"
    /\ lastOp.how = "error"
    /\ lastOp.outcome = "ok"
    /\ lastOp.chunks = <<"Hel", "lo", " there">>
    /\ LastOf(Bucket(chat_history, lastOp.date)).message = "Hello there"
    /\ LastOf(file.items).message = "Hello there"
    /\ LastOf(file.items).user = "AI  "

(***************************************************************************)
(* C1.  After a send's user-turn append, a send's assistant-turn append or *)
(* a delete-exchange, in a session none of whose writes has failed, the    *)
(* file holds exactly flatten(chat_history): the same turns in the same    *)
(* order.                                                                  *)
(***************************************************************************)
FileMirrorsHistory ==
    lastOp.op \in {"send", "stream_end", "delete_sidebar", "delete_main"} /\ lastOp.clean
        => file.kind = "array" /\ file.items = FlattenChatHistory(chat_history)

(***************************************************************************)
(* C4.  Append preserves order.  After append(t) has written a well-formed *)
(* file, with t dated no earlier than any turn the file held,              *)
(* flatten(load()) is flatten(load()) of the file as it was, followed by   *)
(* t.                                                                      *)
(***************************************************************************)
AppendPreservesOrder ==
    LET before == SubSeq(file.items, 1, Len(file.items) - 1)
        t == lastOp.entry
    IN  /\ lastOp.op = "append"
        /\ lastOp.outcome = "ok"
        /\ ~lastOp.raised
        /\ \A k \in 1..Len(before) :
            /\ HasTimestamp(before[k])
            /\ ~Earlier(ParseStamp(t.timestamp), ParseStamp(before[k].timestamp))
        => FlattenChatHistory(LoadChatHistory(file).daily_chats)
             = Append(FlattenChatHistory(LoadChatHistory(ArrayFile(before)).daily_chats), t)

(***************************************************************************)
(* C7.  load() never raises, and the history it returns is empty whenever  *)
(* the file is missing, is not JSON, is JSON but no array, or is an array  *)
(* with an element that has no timestamp.                                  *)
(***************************************************************************)
Unusable(f) ==
    f.kind # "array" \/ \E k \in 1..Len(f.items) : ~HasTimestamp(f.items[k])

LoadNeverRaises ==
    lastOp.op = "load"
        => /\ ~lastOp.raised
           /\ Unusable(file) => AllTurns(chat_history) = <<>>

(***************************************************************************)
(* C8.  Every turn held in bucket d of the in-memory history has a         *)
(* timestamp whose date part is d.                                         *)
(***************************************************************************)
BucketsMatchDates ==
    \A k \in 1..Len(chat_history) :
        \A j \in 1..Len(chat_history[k].chats) :
            SplitDate(chat_history[k].chats[j].timestamp) = chat_history[k].date

(***************************************************************************)
(* C9.  After a delete-exchange has written the file, the turns of the     *)
(* file are in time order: no turn is dated before a turn that precedes    *)
(* it.  flatten returns the turns of all buckets in that order.            *)
(***************************************************************************)
DeleteKeepsTimeOrder ==
    IsDelete(lastOp) /\ lastOp.outcome = "ok"
        => /\ TimeOrdered(file.items)
           /\ TimeOrdered(FlattenChatHistory(chat_history))

(***************************************************************************)
(* C10.  A submitted non-empty input runs the whole send.  Once its user   *)
(* turn is appended the completion request is under way, with the user     *)
(* turn last in its bucket and, in a session with no failed write, last in *)
(* the file; and once the stream has ended the file ends with that user    *)
(* turn followed by the one assistant turn.                                *)
(***************************************************************************)
SendRunsWhole ==
    /\ lastOp.op = "send"
        => /\ ~lastOp.raised
           /\ pc = "streaming"
           /\ LastOf(Bucket(chat_history, lastOp.date)) = lastOp.entry
           /\ lastOp.clean => file.kind = "array" /\ LastOf(file.items) = lastOp.entry
    /\ lastOp.op = "stream_end" /\ lastOp.clean
        => /\ Len(file.items) >= 2
           /\ file.items[Len(file.items) - 1].user = "You"
           /\ LastOf(file.items) = lastOp.entry

====
